---- MODULE Spec2Model ----
(***************************************************************************)
(* DuelBot: the duel life cycle (DuelService over the duels table), the    *)
(* move resolution of make_move, the progression record updates            *)
(* (UserService over the users table) and the instant duel command.        *)
(*                                                                         *)
(* Every database call is one SQL statement and is atomic; the handlers    *)
(* are coroutines, so another handler may run between any two awaited      *)
(* calls of a handler.  Each handler invocation is a process p with a      *)
(* program counter pc[p], its arguments call[p], its local variables       *)
(* loc[p] and the outcome of its last finished call res[p].                *)
(***************************************************************************)
EXTENDS Integers, Sequences, FiniteSets, TLC

\* ------------------------------------------------------------------ bounds
MaxDuels == 2
MaxTime == 1
MaxXp == 600
MaxRun == 5

\* ------------------------------------------------------- program constants
DefaultHp == 100
DefaultAttack == 10
DefaultDefense == 5
HealCap == 100
InstantHp == 250
MaxLevel == 99
OutlawStreak == 5

UserIds == {1, 2, 3}
Guilds == {1}
Procs == {"p1", "p2"}
Times == 1..MaxTime
MoveTypes == {"attack", "defend", "heal", "special"}

VARIABLES
    users,      \* users table: (user_id) -> row, for the rows that exist
    duels,      \* duels table: sequence of rows, duel_id = index (SERIAL)
    moves,      \* duel_moves table: sequence of rows (append only)
    pc,         \* pc[p]: where handler invocation p stands
    call,       \* call[p]: the operation and arguments of p
    loc,        \* loc[p]: local variables of p
    res,        \* res[p]: outcome of the last call p finished
    hist,       \* history of what the callers asked for (not program state)
    cooldowns,          \* cooldown_middleware.cooldowns: command -> user -> expiry
    global_cooldowns,   \* cooldown_middleware.global_cooldowns: set of users
    clock               \* time.time(), in whole seconds

vars == <<users, duels, moves, pc, call, loc, res, hist,
          cooldowns, global_cooldowns, clock>>

\* The cooldown middleware object and the clock it reads; no command handler
\* uses either.
middleware == <<cooldowns, global_cooldowns, clock>>

\* CooldownMiddleware.__init__
MiddlewareInit ==
    /\ cooldowns = <<>>
    /\ global_cooldowns = {}
    /\ clock = 0

Max(S) == CHOOSE x \in S : \A y \in S : y <= x
Min2(a, b) == IF a <= b THEN a ELSE b
Max2(a, b) == IF a >= b THEN a ELSE b

NoCall == [op |-> "none"]
NoLoc == [k |-> "none"]
NoRes == [op |-> "none"]

\* ---------------------------------------------------------- users table
\* The columns CREATE TABLE users gives the table (identity and timestamps
\* left out).  duels_today, last_duel_date and is_outlaw are not among them.
UserColumns ==
    {"level", "experience", "wins", "losses", "draws", "win_streak",
     "best_win_streak", "total_damage_dealt", "total_damage_taken",
     "duels_played"}

\* The row INSERT INTO users creates: every column at its DEFAULT.
NewUserRow ==
    [level |-> 1, experience |-> 0, wins |-> 0, losses |-> 0, draws |-> 0,
     win_streak |-> 0, best_win_streak |-> 0, total_damage_dealt |-> 0,
     total_damage_taken |-> 0, duels_played |-> 0]

\* User.from_dict: a column the row does not carry is read as its default.
FromDict(row) ==
    [level |-> row.level, experience |-> row.experience, wins |-> row.wins,
     losses |-> row.losses, draws |-> row.draws,
     win_streak |-> row.win_streak, best_win_streak |-> row.best_win_streak,
     total_damage_dealt |-> row.total_damage_dealt,
     total_damage_taken |-> row.total_damage_taken,
     duels_played |-> row.duels_played,
     duels_today |-> IF "duels_today" \in DOMAIN row THEN row.duels_today ELSE 0,
     last_duel_date |->
        IF "last_duel_date" \in DOMAIN row THEN row.last_duel_date ELSE 0,
     is_outlaw |-> IF "is_outlaw" \in DOMAIN row THEN row.is_outlaw ELSE FALSE]

\* Database.get_user: the row, or None.
HasUser(tbl, u) == u \in DOMAIN tbl

\* Database.create_user: INSERT ... ON CONFLICT DO UPDATE of the names only.
CreateUser(tbl, u) == IF u \in DOMAIN tbl THEN tbl ELSE (u :> NewUserRow) @@ tbl

\* UserService.get_or_create_user.
GetOrCreateUser(tbl, u) == IF HasUser(tbl, u) THEN tbl ELSE CreateUser(tbl, u)

\* Database.update_user_stats: UPDATE users SET <every key of updates>.
\* PostgreSQL rejects the statement when a key is no column of the table.
UpdateRaises(updates) == ~(DOMAIN updates \subseteq UserColumns)

UpdateUserStats(tbl, u, updates) ==
    IF UpdateRaises(updates) \/ u \notin DOMAIN tbl
    THEN tbl
    ELSE [tbl EXCEPT ![u] = updates @@ @]

\* ---------------------------------------------------------- duels table
\* Database.create_duel: INSERT INTO duels; the other columns take defaults.
NewDuelRow(c, t, g) ==
    [challenger_id |-> c, challenged_id |-> t, guild_id |-> g,
     status |-> "pending", winner_id |-> 0,
     challenger_hp |-> DefaultHp, challenged_hp |-> DefaultHp,
     challenger_attack |-> DefaultAttack, challenged_attack |-> DefaultAttack,
     challenger_defense |-> DefaultDefense, challenged_defense |-> DefaultDefense,
     started_at |-> 0, ended_at |-> 0]

\* Database.get_pending_duel: the newest row of the guild with status
\* 'pending' that names the user; 0 when there is none (duel ids start at 1).
PendingIds(ds, u, g) ==
    {i \in DOMAIN ds :
        /\ ds[i].guild_id = g
        /\ ds[i].status = "pending"
        /\ (ds[i].challenger_id = u \/ ds[i].challenged_id = u)}

GetPendingDuel(ds, u, g) ==
    IF PendingIds(ds, u, g) = {} THEN 0 ELSE Max(PendingIds(ds, u, g))

\* Database.update_duel: UPDATE duels SET <kwargs> WHERE duel_id = id.
UpdateDuel(ds, id, kwargs) ==
    IF id \in DOMAIN ds THEN [ds EXCEPT ![id] = kwargs @@ @] ELSE ds

\* Duel.is_active
IsActive(d) == d.status = "active"

\* Duel.get_user_hp / get_user_attack
GetUserHp(d, u) ==
    IF u = d.challenger_id THEN d.challenger_hp
    ELSE IF u = d.challenged_id THEN d.challenged_hp ELSE 0

GetUserAttack(d, u) ==
    IF u = d.challenger_id THEN d.challenger_attack
    ELSE IF u = d.challenged_id THEN d.challenged_attack ELSE 0

\* ------------------------------------------------------- combat resolver
\* The draws random.randint can return for a move, cut down to the two ends
\* of each range: attack randint(-2, 3), heal randint(5, 15), special
\* randint(0, 5).  hit stands for random.random() < 0.7.
Rolls(m) ==
    IF m = "attack" THEN {-2, 3}
    ELSE IF m = "heal" THEN {5, 15}
    ELSE IF m = "special" THEN {0, 5}
    ELSE {0}

Hits(m) == IF m = "special" THEN BOOLEAN ELSE {TRUE}

\* _calculate_move_effects with the attack's damage not raised to 1.
CalculateMoveEffects_NoFloor(d, u, m, r, hit) ==
    IF m = "attack"
    THEN [damage |-> GetUserAttack(d, u) + r, healing |-> 0]
    ELSE IF m = "defend" THEN [damage |-> 0, healing |-> 0]
    ELSE IF m = "heal" THEN [damage |-> 0, healing |-> r]
    ELSE IF m = "special" /\ hit
    THEN [damage |-> GetUserAttack(d, u) * 2 + r, healing |-> 0]
    ELSE [damage |-> 0, healing |-> 0]

\* DuelService._calculate_move_effects: (damage, healing) of one move.
CalculateMoveEffects(d, u, m, r, hit) ==
    IF m = "attack"
    THEN [damage |-> Max2(1, GetUserAttack(d, u) + r), healing |-> 0]
    ELSE IF m = "defend" THEN [damage |-> 0, healing |-> 0]
    ELSE IF m = "heal" THEN [damage |-> 0, healing |-> r]
    ELSE IF m = "special" /\ hit
    THEN [damage |-> GetUserAttack(d, u) * 2 + r, healing |-> 0]
    ELSE [damage |-> 0, healing |-> 0]

\* make_move, "Apply effects": the opponent's HP is written from the HP of
\* the duel object the handler loaded, not from the row.
ApplyDamage(ds, id, d, u, damage) ==
    IF u = d.challenger_id
    THEN UpdateDuel(ds, id, [challenged_hp |-> Max2(0, d.challenged_hp - damage)])
    ELSE UpdateDuel(ds, id, [challenger_hp |-> Max2(0, d.challenger_hp - damage)])

\* "Add healing" with no cap.
HealedHp_NoCap(current_hp, healing) == current_hp + healing

\* make_move, "Add healing": new_hp = min(100, current_hp + healing), written
\* to the mover's own column.
HealedHp(current_hp, healing) == Min2(HealCap, current_hp + healing)

WriteOwnHp(ds, id, d, u, new_hp) ==
    IF u = d.challenger_id
    THEN UpdateDuel(ds, id, [challenger_hp |-> new_hp])
    ELSE UpdateDuel(ds, id, [challenged_hp |-> new_hp])

\* Database.add_duel_move
AddDuelMove(mv, id, u, m, damage, healing) ==
    Append(mv, [duel_id |-> id, user_id |-> u, move_type |-> m,
                damage |-> damage, healing |-> healing])

\* DatabaseService.get_duel_moves: not implemented, it returns an empty list.
GetDuelMoves(mv, id) == <<>>

\* DuelService._check_duel_end: the winner's id; 0 stands for None, which
\* the method returns for a draw and for a duel that goes on alike.
CheckDuelEnd(d) ==
    IF d.challenger_hp <= 0 /\ d.challenged_hp <= 0 THEN 0
    ELSE IF d.challenger_hp <= 0 THEN d.challenged_id
    ELSE IF d.challenged_hp <= 0 THEN d.challenger_id
    ELSE 0

\* make_move, "if winner:" -- whether _end_duel is called.
EndsDuel(winner) == winner # 0

\* DuelService._end_duel: one update_duel call; no user record is touched
\* (the update_user_after_duel call is commented out).
EndDuel(ds, id, winner, t) ==
    UpdateDuel(ds, id, [status |-> "completed", winner_id |-> winner, ended_at |-> t])

\* make_move from "Calculate move effects" to its return, run without
\* another handler in between.
MakeMoveBody(ds, mv, id, d, u, m, r, hit, t) ==
    LET eff == CalculateMoveEffects(d, u, m, r, hit)
        ds1 == ApplyDamage(ds, id, d, u, eff.damage)
        ds2 == IF eff.healing > 0
               THEN WriteOwnHp(ds1, id, d, u,
                               HealedHp(GetUserHp(ds1[id], u), eff.healing))
               ELSE ds1
        updated == ds2[id]
        winner == CheckDuelEnd(updated)
    IN  [duels |-> IF EndsDuel(winner) THEN EndDuel(ds2, id, winner, t) ELSE ds2,
         moves |-> AddDuelMove(mv, id, u, m, eff.damage, eff.healing),
         ret |-> updated]

\* ------------------------------------------------------ handler plumbing
Idle(p) == pc[p] = "idle"

Goto(p, label, l) ==
    /\ pc' = [pc EXCEPT ![p] = label]
    /\ loc' = [loc EXCEPT ![p] = l]

Begin(p, c, label, l) ==
    /\ call' = [call EXCEPT ![p] = c]
    /\ res' = [res EXCEPT ![p] = NoRes]
    /\ Goto(p, label, l)

\* the handler returns or raises: r is what its caller sees
Finish(p, c, r) ==
    /\ pc' = [pc EXCEPT ![p] = "idle"]
    /\ call' = [call EXCEPT ![p] = NoCall]
    /\ loc' = [loc EXCEPT ![p] = NoLoc]
    /\ res' = [res EXCEPT ![p] = [op |-> c.op] @@ r]

InInsert(p) == pc[p] \in {"cd_chk2", "cd_ins"}

\* ------------------------------------------------- duel life cycle (Spec)
\* whether u is a participant of a pending or active duel of guild g
InLiveDuel(ds, u, g) ==
    \E i \in DOMAIN ds :
        /\ ds[i].guild_id = g /\ ds[i].status \in {"pending", "active"}
        /\ (ds[i].challenger_id = u \/ ds[i].challenged_id = u)

\* DuelController.challenge_user: the self-challenge is refused first.
ChallengeSelf(p, c) ==
    /\ Idle(p)
    /\ Finish(p, [op |-> "challenge", user |-> c], [out |-> "InvalidTarget"])
    /\ UNCHANGED <<users, duels, moves, hist>>
    /\ UNCHANGED middleware

\* challenge_user up to the first query of DuelService.create_duel: both
\* user records are created if missing, then the challenger's pending duel
\* is looked up.  busy notes whether a party was in a pending or active
\* duel when the challenge was issued.
ChallengeStart(p, c, t, g) ==
    /\ Idle(p)
    /\ c # t
    /\ Len(duels) + Cardinality({q \in Procs : InInsert(q)}) < MaxDuels
    /\ users' = GetOrCreateUser(GetOrCreateUser(users, c), t)
    /\ Begin(p, [op |-> "challenge", user |-> c, target |-> t, guild |-> g],
             "cd_chk2", [challenger_pending |-> GetPendingDuel(duels, c, g) # 0,
                         busy |-> InLiveDuel(duels, c, g) \/ InLiveDuel(duels, t, g)])
    /\ UNCHANGED <<duels, moves, hist>>
    /\ UNCHANGED middleware

\* create_duel: the second query, then the two checks.
ChallengeCheck(p) ==
    /\ pc[p] = "cd_chk2"
    /\ LET challenged_pending ==
               GetPendingDuel(duels, call[p].target, call[p].guild) # 0
       IN  IF loc[p].challenger_pending \/ challenged_pending
           THEN Finish(p, call[p], [out |-> "DuelInProgress"])
           ELSE /\ Goto(p, "cd_ins", loc[p])
                /\ UNCHANGED <<call, res>>
    /\ UNCHANGED <<users, duels, moves, hist>>
    /\ UNCHANGED middleware

\* create_duel: the INSERT.
ChallengeInsert(p) ==
    /\ pc[p] = "cd_ins"
    /\ duels' = Append(duels, NewDuelRow(call[p].user, call[p].target, call[p].guild))
    /\ Finish(p, call[p], [out |-> "ok"])
    /\ UNCHANGED <<users, moves, hist>>
    /\ UNCHANGED middleware

\* The three operations with no check of who is calling.
RespondStart_AnyActor(p, op, u, g) ==
    /\ Idle(p)
    /\ LET id == GetPendingDuel(duels, u, g)
           c == [op |-> op, user |-> u, guild |-> g]
       IN  IF id = 0
           THEN Finish(p, c, [out |-> "none"])
           ELSE Begin(p, c, "upd", [duel_id |-> id])
    /\ UNCHANGED <<users, duels, moves, hist>>
    /\ UNCHANGED middleware

\* The first query of accept_duel, decline_duel and cancel_duel, and their
\* checks: no pending duel, or the caller is not the party the operation
\* belongs to (the challenged for accept and decline, the challenger for
\* cancel).
RespondStart(p, op, u, g) ==
    /\ Idle(p)
    /\ LET id == GetPendingDuel(duels, u, g)
           c == [op |-> op, user |-> u, guild |-> g]
       IN  IF id = 0
           THEN Finish(p, c, [out |-> "none"])
           ELSE IF op \in {"accept", "decline"} /\ duels[id].challenged_id # u
           THEN Finish(p, c, [out |-> "NotChallenged"])
           ELSE IF op = "cancel" /\ duels[id].challenger_id # u
           THEN Finish(p, c, [out |-> "NotChallenger"])
           ELSE Begin(p, c, "upd", [duel_id |-> id])
    /\ UNCHANGED <<users, duels, moves, hist>>
    /\ UNCHANGED middleware

AcceptStart(p, u, g) == RespondStart(p, "accept", u, g)
DeclineStart(p, u, g) == RespondStart(p, "decline", u, g)
CancelStart(p, u, g) == RespondStart(p, "cancel", u, g)

\* accept_duel: update_duel(status=ACTIVE, started_at=utcnow()).
AcceptUpdate(p) ==
    /\ pc[p] = "upd" /\ call[p].op = "accept"
    /\ \E t \in Times :
          duels' = UpdateDuel(duels, loc[p].duel_id,
                              [status |-> "active", started_at |-> t])
    /\ Goto(p, "ac_get", loc[p])
    /\ UNCHANGED <<users, moves, call, res, hist>>
    /\ UNCHANGED middleware

\* accept_duel: get_duel, the duel returned to the caller.
AcceptReturn(p) ==
    /\ pc[p] = "ac_get"
    /\ Finish(p, call[p], [out |-> "ok",
                           ret_status |-> duels[loc[p].duel_id].status])
    /\ UNCHANGED <<users, duels, moves, hist>>
    /\ UNCHANGED middleware

\* decline_duel / cancel_duel: update_duel(status=CANCELLED, ended_at=utcnow()).
CancelUpdate(p) ==
    /\ pc[p] = "upd" /\ call[p].op \in {"decline", "cancel"}
    /\ \E t \in Times :
          duels' = UpdateDuel(duels, loc[p].duel_id,
                              [status |-> "cancelled", ended_at |-> t])
    /\ Finish(p, call[p], [out |-> "ok"])
    /\ UNCHANGED <<users, moves, hist>>
    /\ UNCHANGED middleware

\* whether the duels table holds an active duel of the guild naming u
HasActiveDuel(ds, u, g) ==
    \E i \in DOMAIN ds :
        /\ ds[i].guild_id = g /\ ds[i].status = "active"
        /\ (ds[i].challenger_id = u \/ ds[i].challenged_id = u)

\* DuelService.make_move.  The duel comes from get_pending_duel; a call that
\* gets past the two checks runs the body.
MakeMove(p, u, m, g) ==
    /\ Idle(p)
    /\ LET id == GetPendingDuel(duels, u, g)
           c == [op |-> "make_move", user |-> u, move |-> m]
           had == HasActiveDuel(duels, u, g)
       IN  IF id = 0 \/ ~IsActive(duels[id])
           THEN /\ Finish(p, c, [out |-> "NoActiveDuel", had_active |-> had])
                /\ UNCHANGED <<duels, moves>>
           ELSE \E r \in Rolls(m), hit \in Hits(m), t \in Times :
                  LET b == MakeMoveBody(duels, moves, id, duels[id], u, m, r, hit, t)
                  IN  /\ duels' = b.duels
                      /\ moves' = b.moves
                      /\ Finish(p, c, [out |-> "ok", had_active |-> had])
    /\ UNCHANGED <<users, hist>>
    /\ UNCHANGED middleware

\* Database.connect -> _init_schema: the three tables are dropped and
\* created again, empty.  It runs when the cog is loaded (bot start and the
\* owner's reload command), before the cog's commands are dispatched.
EmptyUsers == [u \in {} |-> NewUserRow]
NoHist == [run |-> [u \in UserIds |-> 0]]

Connect ==
    /\ \A p \in Procs : Idle(p)
    /\ users' = EmptyUsers
    /\ duels' = <<>>
    /\ moves' = <<>>
    /\ hist' = NoHist
    /\ UNCHANGED <<pc, call, loc, res>>
    /\ UNCHANGED middleware

Init ==
    /\ users = EmptyUsers
    /\ duels = <<>>
    /\ moves = <<>>
    /\ pc = [p \in Procs |-> "idle"]
    /\ call = [p \in Procs |-> NoCall]
    /\ loc = [p \in Procs |-> NoLoc]
    /\ res = [p \in Procs |-> NoRes]
    /\ hist = NoHist
    /\ MiddlewareInit

Next ==
    \/ \E p \in Procs, c \in UserIds : ChallengeSelf(p, c)
    \/ \E p \in Procs, c \in UserIds, t \in UserIds, g \in Guilds :
          ChallengeStart(p, c, t, g)
    \/ \E p \in Procs : ChallengeCheck(p)
    \/ \E p \in Procs : ChallengeInsert(p)
    \/ \E p \in Procs, u \in UserIds, g \in Guilds : AcceptStart(p, u, g)
    \/ \E p \in Procs, u \in UserIds, g \in Guilds : DeclineStart(p, u, g)
    \/ \E p \in Procs, u \in UserIds, g \in Guilds : CancelStart(p, u, g)
    \/ \E p \in Procs : AcceptUpdate(p)
    \/ \E p \in Procs : AcceptReturn(p)
    \/ \E p \in Procs : CancelUpdate(p)
    \/ \E p \in Procs, u \in UserIds, m \in MoveTypes, g \in Guilds :
          MakeMove(p, u, m, g)
    \/ Connect

Spec == Init /\ [][Next]_vars

\* ------------------------------------- challenge and answer (SpecAnswer)
\* The challenge, accept, decline and cancel handlers alone: one process
\* issues the challenges, both answer them, among two of the users.
Challengers == {1, 2}

NextAnswer ==
    \/ \E c \in Challengers, t \in Challengers, g \in Guilds :
          ChallengeStart("p1", c, t, g)
    \/ ChallengeCheck("p1")
    \/ ChallengeInsert("p1")
    \/ \E p \in Procs, u \in Challengers, g \in Guilds : AcceptStart(p, u, g)
    \/ \E p \in Procs, u \in Challengers, g \in Guilds : DeclineStart(p, u, g)
    \/ \E p \in Procs, u \in Challengers, g \in Guilds : CancelStart(p, u, g)
    \/ \E p \in Procs : AcceptUpdate(p)
    \/ \E p \in Procs : AcceptReturn(p)
    \/ \E p \in Procs : CancelUpdate(p)

SpecAnswer == Init /\ [][NextAnswer]_vars

\* ------------------------------------------ make_move's body (SpecMove)
\* get_pending_duel hands make_move rows of status 'pending' only, so in
\* Spec no call gets past "not duel.is_active".  SpecMove runs the rest of
\* make_move, statement by statement, for callers whose duel object is the
\* row of an active duel: it starts from one active duel between users 1
\* and 2 whose HP values are drawn from HpStarts, and lets up to MaxMoves
\* moves of the two handler invocations interleave.
MaxMoves == 2
HpStarts == {100, 13, 8}

ActiveRow(hc, hd) ==
    [NewDuelRow(1, 2, 1) EXCEPT !.status = "active", !.started_at = 1,
                                !.challenger_hp = hc, !.challenged_hp = hd]

Moving(p) == pc[p] \in {"mv_apply", "mv_heal_rd", "mv_heal_wr", "mv_log", "mv_chk", "mv_end"}

\* make_move past its two checks: duel is the row as the handler loaded it.
MoveEnter(p, u, m) ==
    /\ Idle(p)
    /\ Len(moves) + Cardinality({q \in Procs : Moving(q)}) < MaxMoves
    /\ IsActive(duels[1])
    /\ u \in {duels[1].challenger_id, duels[1].challenged_id}
    /\ Begin(p, [op |-> "make_move", user |-> u, move |-> m],
             "mv_apply", [duel_id |-> 1, duel |-> duels[1]])
    /\ UNCHANGED <<users, duels, moves, hist>>
    /\ UNCHANGED middleware

\* _calculate_move_effects, then "Apply effects": one update_duel.
MoveApply(p) ==
    /\ pc[p] = "mv_apply"
    /\ \E r \in Rolls(call[p].move), hit \in Hits(call[p].move) :
          LET eff == CalculateMoveEffects(loc[p].duel, call[p].user, call[p].move, r, hit)
          IN  /\ duels' = ApplyDamage(duels, loc[p].duel_id, loc[p].duel,
                                      call[p].user, eff.damage)
              /\ Goto(p, IF eff.healing > 0 THEN "mv_heal_rd" ELSE "mv_log",
                      [r |-> r, hit |-> hit, damage |-> eff.damage,
                       healing |-> eff.healing] @@ loc[p])
    /\ UNCHANGED <<users, moves, call, res, hist>>
    /\ UNCHANGED middleware

\* "Add healing": _get_user_hp reads the row ...
MoveHealRead(p) ==
    /\ pc[p] = "mv_heal_rd"
    /\ Goto(p, "mv_heal_wr",
            [current_hp |-> GetUserHp(duels[loc[p].duel_id], call[p].user)] @@ loc[p])
    /\ UNCHANGED <<users, duels, moves, call, res, hist>>
    /\ UNCHANGED middleware

\* ... and update_duel writes min(100, current_hp + healing).
MoveHealWrite(p) ==
    /\ pc[p] = "mv_heal_wr"
    /\ duels' = WriteOwnHp(duels, loc[p].duel_id, loc[p].duel, call[p].user,
                           HealedHp(loc[p].current_hp, loc[p].healing))
    /\ Goto(p, "mv_log", loc[p])
    /\ UNCHANGED <<users, moves, call, res, hist>>
    /\ UNCHANGED middleware

\* "Record the move": add_duel_move.
MoveLog(p) ==
    /\ pc[p] = "mv_log"
    /\ moves' = AddDuelMove(moves, loc[p].duel_id, call[p].user, call[p].move,
                            loc[p].damage, loc[p].healing)
    /\ Goto(p, "mv_chk", loc[p])
    /\ UNCHANGED <<users, duels, call, res, hist>>
    /\ UNCHANGED middleware

MoveResult(p) ==
    [out |-> "ok", user |-> call[p].user, move |-> call[p].move,
     r |-> loc[p].r, hit |-> loc[p].hit]

\* "Check for duel end": get_duel, _check_duel_end, "if winner:".
MoveCheck(p) ==
    /\ pc[p] = "mv_chk"
    /\ LET updated == duels[loc[p].duel_id]
           winner == CheckDuelEnd(updated)
       IN  IF EndsDuel(winner)
           THEN /\ Goto(p, "mv_end", [updated |-> updated, winner |-> winner] @@ loc[p])
                /\ UNCHANGED <<call, res>>
           ELSE Finish(p, call[p], [ret |-> updated] @@ MoveResult(p))
    /\ UNCHANGED <<users, duels, moves, hist>>
    /\ UNCHANGED middleware

\* _end_duel, then make_move returns the duel it read before _end_duel.
MoveEnd(p) ==
    /\ pc[p] = "mv_end"
    /\ \E t \in Times : duels' = EndDuel(duels, loc[p].duel_id, loc[p].winner, t)
    /\ Finish(p, call[p], [ret |-> loc[p].updated] @@ MoveResult(p))
    /\ UNCHANGED <<users, moves, hist>>
    /\ UNCHANGED middleware

InitMove ==
    /\ users = (1 :> NewUserRow) @@ (2 :> NewUserRow)
    /\ \E hc \in HpStarts, hd \in HpStarts :
          /\ duels = <<ActiveRow(hc, hd)>>
          /\ hist = [start |-> ActiveRow(hc, hd)]
    /\ moves = <<>>
    /\ pc = [p \in Procs |-> "idle"]
    /\ call = [p \in Procs |-> NoCall]
    /\ loc = [p \in Procs |-> NoLoc]
    /\ res = [p \in Procs |-> NoRes]
    /\ MiddlewareInit

NextMove ==
    \/ \E p \in Procs, u \in UserIds, m \in MoveTypes : MoveEnter(p, u, m)
    \/ \E p \in Procs : MoveApply(p)
    \/ \E p \in Procs : MoveHealRead(p)
    \/ \E p \in Procs : MoveHealWrite(p)
    \/ \E p \in Procs : MoveLog(p)
    \/ \E p \in Procs : MoveCheck(p)
    \/ \E p \in Procs : MoveEnd(p)

SpecMove == InitMove /\ [][NextMove]_vars

\* ------------------------------------------------ progression calculator
\* The XP a level takes, as calculate_level computes it for next_level.
RequiredXp(L) == (L * L * L) * 10 + (L * 100)

\* The while loop of calculate_level, from level: stop at 99 or at the
\* first next level whose requirement experience is below.
RECURSIVE LevelLoop(_, _)
LevelLoop(level, experience) ==
    IF level < MaxLevel /\ ~(experience < RequiredXp(level + 1))
    THEN LevelLoop(level + 1, experience)
    ELSE level

\* The calculator levelling up one experience point late.
CalculateLevel_Late(experience) ==
    IF experience <= 1 THEN 1 ELSE Min2(LevelLoop(1, experience - 1), MaxLevel)

\* The calculator stopping one level short of the cap.
CalculateLevel_Cap(experience) ==
    IF experience <= 0 THEN 1 ELSE Min2(LevelLoop(1, experience), MaxLevel - 1)

\* UserService.calculate_level
CalculateLevel(experience) ==
    IF experience <= 0 THEN 1 ELSE Min2(LevelLoop(1, experience), MaxLevel)

\* No diminishing returns at all.
DiminishingX10_Flat(duels_today) == 10

\* User.calculate_xp_gain: diminishing_factor, in tenths.
DiminishingX10(duels_today) ==
    IF duels_today >= 10 THEN 1
    ELSE IF duels_today >= 5 THEN 5
    ELSE IF duels_today >= 3 THEN 8 ELSE 10

\* The award without its minimum of 1.
CalculateXpGain_NoMin(user, won, damage_dealt, opponent_level, is_first_duel_today, opponent_is_outlaw) ==
    LET sum == (IF won THEN 10 + Min2(user.win_streak, 5) ELSE 5)
               + Min2(damage_dealt \div 20, 10) + (damage_dealt \div 10)
               + (IF is_first_duel_today THEN 5 ELSE 0)
        level_x2 == IF opponent_level > user.level THEN 4
                    ELSE IF opponent_level < user.level THEN 1 ELSE 2
    IN  (sum * level_x2 * (IF opponent_is_outlaw THEN 2 ELSE 1)
         * DiminishingX10(user.duels_today)) \div 20

\* User.calculate_xp_gain.  The three float factors are exact multiples of
\* 1/2, 1 and 1/10, and int() truncates a product that is never negative,
\* so the award is the integer quotient below.
CalculateXpGain(user, won, damage_dealt, opponent_level, is_first_duel_today, opponent_is_outlaw) ==
    LET base_xp == IF won THEN 10 ELSE 5
        damage_bonus == Min2(damage_dealt \div 20, 10)
        streak_bonus == IF won THEN Min2(user.win_streak, 5) ELSE 0
        first_duel_bonus == IF is_first_duel_today THEN 5 ELSE 0
        damage_xp_bonus == damage_dealt \div 10
        level_x2 == IF opponent_level > user.level THEN 4
                    ELSE IF opponent_level < user.level THEN 1 ELSE 2
        outlaw == IF opponent_is_outlaw THEN 2 ELSE 1
        diminishing_x10 == DiminishingX10(user.duels_today)
        total_xp == ((base_xp + damage_bonus + streak_bonus + first_duel_bonus
                      + damage_xp_bonus) * level_x2 * outlaw * diminishing_x10)
                    \div 20
    IN  Max2(1, total_xp)

\* update_user_after_duel: is_first_duel_today and xp_gained.
IsFirstDuelToday(user, today) ==
    user.last_duel_date = 0 \/ user.last_duel_date # today

XpGained(user, won, damage_dealt, opponent_level, opponent_is_outlaw, today) ==
    CalculateXpGain(user, won, damage_dealt, opponent_level,
                    IsFirstDuelToday(user, today), opponent_is_outlaw)

\* update_user_after_duel with a loss that is not counted.
DuelUpdates_LossUncounted(user, won, damage_dealt, damage_taken, opponent_level, opponent_is_outlaw, today) ==
    LET new_experience ==
            user.experience + XpGained(user, won, damage_dealt, opponent_level,
                                       opponent_is_outlaw, today)
        common ==
            [duels_played |-> user.duels_played + 1,
             duels_today |-> IF IsFirstDuelToday(user, today) THEN 1
                             ELSE user.duels_today + 1,
             last_duel_date |-> today,
             total_damage_dealt |-> user.total_damage_dealt + damage_dealt,
             total_damage_taken |-> user.total_damage_taken + damage_taken,
             experience |-> new_experience,
             level |-> CalculateLevel(new_experience)]
    IN  IF won
        THEN [wins |-> user.wins + 1,
              win_streak |-> user.win_streak + 1,
              best_win_streak |-> Max2(user.best_win_streak, user.win_streak + 1),
              is_outlaw |-> user.win_streak + 1 >= OutlawStreak] @@ common
        ELSE [win_streak |-> 0, is_outlaw |-> FALSE] @@ common

\* update_user_after_duel with a best streak that a win does not raise.
DuelUpdates_BestKept(user, won, damage_dealt, damage_taken, opponent_level, opponent_is_outlaw, today) ==
    LET new_experience ==
            user.experience + XpGained(user, won, damage_dealt, opponent_level,
                                       opponent_is_outlaw, today)
        common ==
            [duels_played |-> user.duels_played + 1,
             duels_today |-> IF IsFirstDuelToday(user, today) THEN 1
                             ELSE user.duels_today + 1,
             last_duel_date |-> today,
             total_damage_dealt |-> user.total_damage_dealt + damage_dealt,
             total_damage_taken |-> user.total_damage_taken + damage_taken,
             experience |-> new_experience,
             level |-> CalculateLevel(new_experience)]
    IN  IF won
        THEN [wins |-> user.wins + 1,
              win_streak |-> user.win_streak + 1,
              is_outlaw |-> user.win_streak + 1 >= OutlawStreak] @@ common
        ELSE [losses |-> user.losses + 1, win_streak |-> 0,
              is_outlaw |-> FALSE] @@ common

\* update_user_after_duel: the updates dictionary handed to
\* update_user_stats, computed from the user object loaded before.
DuelUpdates(user, won, damage_dealt, damage_taken, opponent_level, opponent_is_outlaw, today) ==
    LET new_experience ==
            user.experience + XpGained(user, won, damage_dealt, opponent_level,
                                       opponent_is_outlaw, today)
        common ==
            [duels_played |-> user.duels_played + 1,
             duels_today |-> IF IsFirstDuelToday(user, today) THEN 1
                             ELSE user.duels_today + 1,
             last_duel_date |-> today,
             total_damage_dealt |-> user.total_damage_dealt + damage_dealt,
             total_damage_taken |-> user.total_damage_taken + damage_taken,
             experience |-> new_experience,
             level |-> CalculateLevel(new_experience)]
    IN  IF won
        THEN [wins |-> user.wins + 1,
              win_streak |-> user.win_streak + 1,
              best_win_streak |-> Max2(user.best_win_streak, user.win_streak + 1),
              is_outlaw |-> user.win_streak + 1 >= OutlawStreak] @@ common
        ELSE [losses |-> user.losses + 1, win_streak |-> 0,
              is_outlaw |-> FALSE] @@ common

\* add_experience: its updates dictionary.
GrantUpdates(user, exp_amount) ==
    [experience |-> user.experience + exp_amount,
     level |-> CalculateLevel(user.experience + exp_amount)]

\* ------------------------------------------- progression engine (SpecProg)
\* The inputs the callers draw from.  Experience amounts are among those
\* validate_experience_amount lets through (0 .. 1000); 280 is the XP of
\* level 2 and 280 + 290 that of level 3.
ProgUsers == {1}
ExpAmounts == {0, 280, 290}
Damages == {[dealt |-> 260, taken |-> 0], [dealt |-> 0, taken |-> 260]}
Opponents == {[level |-> 1, is_outlaw |-> FALSE], [level |-> 3, is_outlaw |-> TRUE]}
Days == {1, 2}

\* UserService.get_or_create_user
GetOrCreate(u) ==
    /\ u \notin DOMAIN users
    /\ users' = GetOrCreateUser(users, u)
    /\ UNCHANGED <<duels, moves, pc, call, loc, res, hist>>
    /\ UNCHANGED middleware

\* add_experience creating the record it does not find.
GrantStart_Create(p, u, amt) ==
    /\ Idle(p)
    /\ GetOrCreateUser(users, u)[u].experience + amt <= MaxXp
    /\ users' = GetOrCreateUser(users, u)
    /\ Begin(p, [op |-> "grant", user |-> u, amt |-> amt], "ax_wr",
             [user |-> FromDict(users'[u])])
    /\ UNCHANGED <<duels, moves, hist>>
    /\ UNCHANGED middleware

\* add_experience: get_user; None is returned for a missing record.
GrantStart(p, u, amt) ==
    /\ Idle(p)
    /\ IF ~HasUser(users, u)
       THEN Finish(p, [op |-> "grant", user |-> u], [out |-> "none"])
       ELSE /\ users[u].experience + amt <= MaxXp
            /\ Begin(p, [op |-> "grant", user |-> u, amt |-> amt], "ax_wr",
                     [user |-> FromDict(users[u])])
    /\ UNCHANGED <<users, duels, moves, hist>>
    /\ UNCHANGED middleware

\* add_experience: update_user_stats(experience, level).
GrantWrite(p) ==
    /\ pc[p] = "ax_wr"
    /\ users' = UpdateUserStats(users, call[p].user,
                                GrantUpdates(loc[p].user, call[p].amt))
    /\ Finish(p, call[p], [out |-> "ok"])
    /\ UNCHANGED <<duels, moves, hist>>
    /\ UNCHANGED middleware

\* The duel counters of a record.
Tally(user) ==
    [duels_played |-> user.duels_played, wins |-> user.wins,
     losses |-> user.losses, draws |-> user.draws,
     win_streak |-> user.win_streak, best_win_streak |-> user.best_win_streak]

UpdatingUser(q, u) == pc[q] = "ud_wr" /\ call[q].user = u

\* update_user_after_duel: get_user; a missing record is logged and None
\* returned.  hist.run[u] counts the wins in a row the duel outcomes give u.
UpdateStart(p, u, won, dmg, opp) ==
    /\ Idle(p)
    /\ IF ~HasUser(users, u)
       THEN /\ Finish(p, [op |-> "update", user |-> u], [out |-> "none"])
            /\ UNCHANGED hist
       ELSE /\ won => hist.run[u] < MaxRun
            /\ hist' = [hist EXCEPT !.run[u] = IF won THEN @ + 1 ELSE 0]
            /\ Begin(p, [op |-> "update", user |-> u, won |-> won,
                         damage_dealt |-> dmg.dealt, damage_taken |-> dmg.taken,
                         opponent_level |-> opp.level,
                         opponent_is_outlaw |-> opp.is_outlaw],
                     "ud_wr",
                     [user |-> FromDict(users[u]),
                      overlap |-> \E q \in Procs : UpdatingUser(q, u)])
    /\ UNCHANGED <<users, duels, moves>>
    /\ UNCHANGED middleware

\* update_user_after_duel from date.today() on: the updates are computed
\* and update_user_stats is called; it raises when the table lacks one of
\* the columns, and then nothing is written.
UpdateWrite(p) ==
    /\ pc[p] = "ud_wr"
    /\ \E today \in Days :
          LET c == call[p]
              updates == DuelUpdates(loc[p].user, c.won, c.damage_dealt,
                                     c.damage_taken, c.opponent_level,
                                     c.opponent_is_outlaw, today)
              r == [user |-> c.user, won |-> c.won, overlap |-> loc[p].overlap,
                    before |-> [duels_played |-> loc[p].user.duels_played,
                                experience |-> loc[p].user.experience,
                                wins |-> loc[p].user.wins,
                                losses |-> loc[p].user.losses],
                    xp_gained |-> updates.experience - loc[p].user.experience,
                    new_level |-> updates.level,
                    after |-> Tally(updates @@ loc[p].user)]
          IN  /\ users' = UpdateUserStats(users, c.user, updates)
              /\ Finish(p, c, [out |-> IF UpdateRaises(updates)
                                       THEN "raised" ELSE "ok"] @@ r)
    /\ UNCHANGED <<duels, moves, hist>>
    /\ UNCHANGED middleware

NextProg ==
    \/ \E u \in ProgUsers : GetOrCreate(u)
    \/ \E p \in Procs, u \in ProgUsers, amt \in ExpAmounts : GrantStart(p, u, amt)
    \/ \E p \in Procs : GrantWrite(p)
    \/ \E p \in Procs, u \in ProgUsers, won \in BOOLEAN, dmg \in Damages,
          opp \in Opponents : UpdateStart(p, u, won, dmg, opp)
    \/ \E p \in Procs : UpdateWrite(p)
    \/ Connect

SpecProg == Init /\ [][NextProg]_vars

\* --------------------------------------- instant duel command (SpecInstant)
\* random.randint(0, 100), by two of its values.
Dice == {50, 100}

\* One update_user_after_duel call of the command: for whom, and with what.
StatCall(u, won, dealt, taken, opponent) ==
    [user |-> u, won |-> won, damage_dealt |-> dealt, damage_taken |-> taken,
     opponent_level |-> opponent.level, opponent_is_outlaw |-> opponent.is_outlaw]

\* The calls with each side's own user object in the opponent's place.
StatCalls_Own(c, l) ==
    LET author == [user |-> c.author, won |-> l.target_hp <= 0 /\ l.challenger_hp > 0,
                   damage_dealt |-> l.total_challenger_damage,
                   damage_taken |-> l.total_target_damage,
                   opponent_level |-> l.challenger_user.level,
                   opponent_is_outlaw |-> l.challenger_user.is_outlaw]
        target == [user |-> c.target, won |-> l.challenger_hp <= 0 /\ l.target_hp > 0,
                   damage_dealt |-> l.total_target_damage,
                   damage_taken |-> l.total_challenger_damage,
                   opponent_level |-> l.target_user.level,
                   opponent_is_outlaw |-> l.target_user.is_outlaw]
    IN  IF target.won THEN <<target, author>> ELSE <<author, target>>

\* The calls without the draw branch: with both sides at 0 HP the author is
\* updated as winner.
StatCalls_NoDraw(c, l) ==
    LET author == StatCall(c.author, FALSE, l.total_challenger_damage,
                           l.total_target_damage, l.target_user)
        target == StatCall(c.target, FALSE, l.total_target_damage,
                           l.total_challenger_damage, l.challenger_user)
    IN  IF l.challenger_hp <= 0 /\ l.target_hp > 0
        THEN <<[target EXCEPT !.won = TRUE], author>>
        ELSE <<[author EXCEPT !.won = TRUE], target>>

\* DuelCommands.duel from "Determine winner" on: the update calls it makes,
\* in order.  Both at 0 HP: author then target, neither as winner.
\* Otherwise the side left standing as winner, then the other as loser.
StatCalls(c, l) ==
    LET author == StatCall(c.author, FALSE, l.total_challenger_damage,
                           l.total_target_damage, l.target_user)
        target == StatCall(c.target, FALSE, l.total_target_damage,
                           l.total_challenger_damage, l.challenger_user)
    IN  IF l.challenger_hp <= 0 /\ l.target_hp <= 0 THEN <<author, target>>
        ELSE IF l.challenger_hp <= 0
             THEN <<[target EXCEPT !.won = TRUE], author>>
             ELSE <<[author EXCEPT !.won = TRUE], target>>

\* DuelCommands.duel: validate_duel_target (a bot or an offline member is
\* not reachable), then get_or_create_user of both members.
InstantStart(p, author, target, reachable) ==
    /\ Idle(p)
    /\ IF target = author \/ ~reachable
       THEN /\ Finish(p, [op |-> "instant"], [out |-> "invalid"])
            /\ UNCHANGED users
       ELSE /\ users' = GetOrCreateUser(GetOrCreateUser(users, author), target)
            /\ Begin(p, [op |-> "instant", author |-> author, target |-> target],
                     "in_load", NoLoc)
    /\ UNCHANGED <<duels, moves, hist>>
    /\ UNCHANGED middleware

\* After "FIGHT!": both user objects are fetched again and the fight is set
\* up with 250 HP a side.
InstantLoad(p) ==
    /\ pc[p] = "in_load"
    /\ users' = GetOrCreateUser(GetOrCreateUser(users, call[p].author),
                                call[p].target)
    /\ Goto(p, "in_round",
            [challenger_user |-> FromDict(users'[call[p].author]),
             target_user |-> FromDict(users'[call[p].target]),
             challenger_hp |-> InstantHp, target_hp |-> InstantHp,
             round_num |-> 1,
             total_challenger_damage |-> 0, total_target_damage |-> 0])
    /\ UNCHANGED <<duels, moves, call, res, hist>>
    /\ UNCHANGED middleware

\* what the command has fixed by the end of the fight: whom it updates, as
\* winner or not and against what opponent, and the two user objects' level
\* and outlaw flag it holds
PlanOf(calls) ==
    [i \in DOMAIN calls |->
        [user |-> calls[i].user, won |-> calls[i].won,
         opponent_level |-> calls[i].opponent_level,
         opponent_is_outlaw |-> calls[i].opponent_is_outlaw]]

SnapshotOf(user) == [level |-> user.level, is_outlaw |-> user.is_outlaw]

\* The while loop with alternating turns: the target strikes back only when
\* the challenger's hit has left it standing.
InstantRound_Alternating(p) ==
    /\ pc[p] = "in_round"
    /\ \E challenger_base_damage \in Dice, target_base_damage \in Dice :
          LET l == loc[p]
              challenger_damage == challenger_base_damage + l.challenger_user.level
              target_damage == target_base_damage + l.target_user.level
              target_left == Max2(0, l.target_hp - challenger_damage)
              fought ==
                  [l EXCEPT
                     !.challenger_hp = IF target_left <= 0 THEN @
                                       ELSE Max2(0, @ - target_damage),
                     !.target_hp = target_left,
                     !.total_challenger_damage = @ + challenger_damage,
                     !.total_target_damage = @ + target_damage]
          IN  IF fought.challenger_hp <= 0 \/ fought.target_hp <= 0
              THEN Goto(p, "in_get",
                        [calls |-> StatCalls(call[p], fought), updated |-> {},
                         plan |-> PlanOf(StatCalls(call[p], fought)),
                         challenger_user |-> SnapshotOf(l.challenger_user),
                         target_user |-> SnapshotOf(l.target_user),
                         challenger_hp |-> fought.challenger_hp,
                         target_hp |-> fought.target_hp])
              ELSE Goto(p, "in_round", [fought EXCEPT !.round_num = @ + 1])
    /\ UNCHANGED <<users, duels, moves, call, res, hist>>
    /\ UNCHANGED middleware

\* The while loop's pass without the level bonus: the damage is the roll.
InstantRoundWith_NoBonus(p, dice) ==
    /\ pc[p] = "in_round"
    /\ \E challenger_base_damage \in dice, target_base_damage \in dice :
          LET l == loc[p]
              challenger_damage == challenger_base_damage
              target_damage == target_base_damage
              fought ==
                  [l EXCEPT
                     !.challenger_hp = Max2(0, @ - target_damage),
                     !.target_hp = Max2(0, @ - challenger_damage),
                     !.total_challenger_damage = @ + challenger_damage,
                     !.total_target_damage = @ + target_damage]
          IN  IF fought.challenger_hp <= 0 \/ fought.target_hp <= 0
              THEN Goto(p, "in_get",
                        [calls |-> StatCalls(call[p], fought), updated |-> {},
                         plan |-> PlanOf(StatCalls(call[p], fought)),
                         challenger_user |-> SnapshotOf(l.challenger_user),
                         target_user |-> SnapshotOf(l.target_user),
                         challenger_hp |-> fought.challenger_hp,
                         target_hp |-> fought.target_hp])
              ELSE Goto(p, "in_round", [fought EXCEPT !.round_num = @ + 1])
    /\ UNCHANGED <<users, duels, moves, call, res, hist>>
    /\ UNCHANGED middleware

\* One pass of the while loop, the two random.randint(0, 100) drawn from
\* dice: both sides roll, both lose HP at once, HP is kept from going below
\* 0; when a side is down the calls to make are set.
InstantRoundWith(p, dice) ==
    /\ pc[p] = "in_round"
    /\ \E challenger_base_damage \in dice, target_base_damage \in dice :
          LET l == loc[p]
              challenger_damage == challenger_base_damage + l.challenger_user.level
              target_damage == target_base_damage + l.target_user.level
              fought ==
                  [l EXCEPT
                     !.challenger_hp = Max2(0, @ - target_damage),
                     !.target_hp = Max2(0, @ - challenger_damage),
                     !.total_challenger_damage = @ + challenger_damage,
                     !.total_target_damage = @ + target_damage]
          IN  IF fought.challenger_hp <= 0 \/ fought.target_hp <= 0
              THEN Goto(p, "in_get",
                        [calls |-> StatCalls(call[p], fought), updated |-> {},
                         plan |-> PlanOf(StatCalls(call[p], fought)),
                         challenger_user |-> SnapshotOf(l.challenger_user),
                         target_user |-> SnapshotOf(l.target_user),
                         challenger_hp |-> fought.challenger_hp,
                         target_hp |-> fought.target_hp])
              ELSE Goto(p, "in_round", [fought EXCEPT !.round_num = @ + 1])
    /\ UNCHANGED <<users, duels, moves, call, res, hist>>
    /\ UNCHANGED middleware

InstantRound(p) == InstantRoundWith(p, Dice)

InstantResult(p, out, updated) ==
    [out |-> out, author |-> call[p].author, target |-> call[p].target,
     plan |-> loc[p].plan, challenger_user |-> loc[p].challenger_user,
     target_user |-> loc[p].target_user,
     challenger_hp |-> loc[p].challenger_hp, target_hp |-> loc[p].target_hp,
     updated |-> updated]

\* The next call is made, or the result is shown when none is left.
InstantNext(p, left, updated) ==
    IF left = <<>>
    THEN Finish(p, call[p], InstantResult(p, "shown", updated))
    ELSE /\ Goto(p, "in_get", [loc[p] EXCEPT !.calls = left, !.updated = updated])
         /\ UNCHANGED <<call, res>>

\* update_user_after_duel, called by the command: get_user.  With no
\* record it returns None and the command goes on.
InstantUpdateLoad(p) ==
    /\ pc[p] = "in_get"
    /\ LET c == Head(loc[p].calls)
       IN  IF HasUser(users, c.user)
           THEN /\ Goto(p, "in_wr", [user |-> FromDict(users[c.user])] @@ loc[p])
                /\ UNCHANGED <<call, res>>
           ELSE InstantNext(p, Tail(loc[p].calls), loc[p].updated)
    /\ UNCHANGED <<users, duels, moves, hist>>
    /\ UNCHANGED middleware

\* update_user_after_duel, called by the command: update_user_stats.  When
\* it raises, the command's except clause logs, reports an error and
\* returns: the calls left are not made.
InstantUpdateWrite(p) ==
    /\ pc[p] = "in_wr"
    /\ \E today \in Days :
          LET c == Head(loc[p].calls)
              updates == DuelUpdates(loc[p].user, c.won, c.damage_dealt,
                                     c.damage_taken, c.opponent_level,
                                     c.opponent_is_outlaw, today)
          IN  /\ users' = UpdateUserStats(users, c.user, updates)
              /\ IF UpdateRaises(updates)
                 THEN Finish(p, call[p], InstantResult(p, "error", loc[p].updated))
                 ELSE InstantNext(p, Tail(loc[p].calls),
                                  IF HasUser(users, c.user)
                                  THEN loc[p].updated \cup {c.user}
                                  ELSE loc[p].updated)
    /\ UNCHANGED <<duels, moves, hist>>
    /\ UNCHANGED middleware

NextInstant ==
    \/ \E p \in Procs, author \in UserIds, target \in UserIds,
          reachable \in BOOLEAN : InstantStart(p, author, target, reachable)
    \/ \E p \in Procs : InstantLoad(p)
    \/ \E p \in Procs : InstantRound(p)
    \/ \E p \in Procs : InstantUpdateLoad(p)
    \/ \E p \in Procs : InstantUpdateWrite(p)
    \/ Connect

SpecInstant == Init /\ [][NextInstant]_vars

\* ------------------------------------ the round loop to its end (SpecRounds)
\* random.randint(0, 100), by its two ends.
DiceEnds == {0, 100}

\* One handler grants experience and runs instant duels, one after the
\* other, every round drawing the least or the largest roll.
NextRounds ==
    \/ \E u \in ProgUsers : GetOrCreate(u)
    \/ \E u \in ProgUsers, amt \in ExpAmounts : GrantStart("p1", u, amt)
    \/ GrantWrite("p1")
    \/ \E reachable \in BOOLEAN : InstantStart("p1", 1, 2, reachable)
    \/ InstantLoad("p1")
    \/ InstantRoundWith("p1", DiceEnds)
    \/ InstantUpdateLoad("p1")
    \/ InstantUpdateWrite("p1")

\* The command's coroutine is resumed after every asyncio.sleep(2): a round
\* that can be played is played.
SpecRounds ==
    Init /\ [][NextRounds]_vars /\ WF_vars(InstantRoundWith("p1", DiceEnds))

\* ------------------------------------ both duel modes' HP (SpecHp)
\* One handler invocation at a time: moves on the active duel of SpecMove
\* and instant duel commands of user 1 against user 2, in any order.
NextHp ==
    \/ \E u \in UserIds, m \in MoveTypes : MoveEnter("p1", u, m)
    \/ MoveApply("p1")
    \/ MoveHealRead("p1")
    \/ MoveHealWrite("p1")
    \/ MoveLog("p1")
    \/ MoveCheck("p1")
    \/ MoveEnd("p1")
    \/ \E reachable \in BOOLEAN : InstantStart("p1", 1, 2, reachable)
    \/ InstantLoad("p1")
    \/ InstantRound("p1")
    \/ InstantUpdateLoad("p1")
    \/ InstantUpdateWrite("p1")

SpecHp == InitMove /\ [][NextHp]_vars

\* DuelCommands.level, "XP Sources": "Level 99 = 9,702,100 XP total".
ShownLevel99Xp == 9702100

\* ------------------------------------------- the calculators (SpecCalc)
\* The two pure calculators are applied to inputs drawn at the start: one
\* invocation holds either the arguments of calculate_xp_gain (with the
\* fields of the user object it reads) or one or two experience values for
\* calculate_level.
XpDamages == {0, 19, 50, 260}
XpOwnLevels == {1, 10}
XpOpponentLevels == {1, 10, 20}
XpStreaks == {0, 3, 7}
XpDuelsToday == {0, 3, 5, 10}

XpInputs ==
    [op : {"xp"}, won : BOOLEAN, damage_dealt : XpDamages, level : XpOwnLevels,
     opponent_level : XpOpponentLevels, is_first_duel_today : BOOLEAN,
     opponent_is_outlaw : BOOLEAN, win_streak : XpStreaks,
     duels_today : XpDuelsToday]

\* Every experience below level 2, the experience just below, at and just
\* above the requirement of every level, and values far beyond level 99.
LevelMarks == {RequiredXp(L) : L \in 2..MaxLevel}
LevelXps ==
    (0..(RequiredXp(2) - 1)) \cup LevelMarks \cup {x - 1 : x \in LevelMarks}
    \cup {x + 1 : x \in LevelMarks} \cup {100000000, 2147483647}
LevelInputs == [op : {"level"}, experience : LevelXps, other : LevelMarks \cup {0, 2147483647}]

\* user.calculate_xp_gain(...) on a user object with these fields
XpApply(p) ==
    /\ pc[p] = "calc" /\ call[p].op = "xp"
    /\ LET c == call[p]
           user == [level |-> c.level, win_streak |-> c.win_streak,
                    duels_today |-> c.duels_today]
       IN  Finish(p, c, [args |-> c,
                         xp_gained |-> CalculateXpGain(user, c.won, c.damage_dealt,
                                           c.opponent_level, c.is_first_duel_today,
                                           c.opponent_is_outlaw)])
    /\ UNCHANGED <<users, duels, moves, hist>>
    /\ UNCHANGED middleware

\* calculate_level(experience), and calculate_level(other)
LevelApply(p) ==
    /\ pc[p] = "calc" /\ call[p].op = "level"
    /\ Finish(p, call[p], [args |-> call[p],
                           level |-> CalculateLevel(call[p].experience),
                           other_level |-> CalculateLevel(call[p].other)])
    /\ UNCHANGED <<users, duels, moves, hist>>
    /\ UNCHANGED middleware

InitCalc ==
    /\ users = EmptyUsers
    /\ duels = <<>>
    /\ moves = <<>>
    /\ hist = NoHist
    /\ \E c \in XpInputs \cup LevelInputs :
          /\ call = [p \in Procs |-> IF p = "p1" THEN c ELSE NoCall]
          /\ pc = [p \in Procs |-> IF p = "p1" THEN "calc" ELSE "idle"]
    /\ loc = [p \in Procs |-> NoLoc]
    /\ res = [p \in Procs |-> NoRes]
    /\ MiddlewareInit

NextCalc ==
    \/ \E p \in Procs : XpApply(p)
    \/ \E p \in Procs : LevelApply(p)

SpecCalc == InitCalc /\ [][NextCalc]_vars

\* ------------------------------------- the combat resolver (SpecResolve)
\* _calculate_move_effects applied to a move, a mover and a duel whose two
\* attack columns are drawn at the start, with every value random.randint
\* can return: attack randint(-2, 3), heal randint(5, 15), special
\* randint(0, 5).
AttackPowers == {-5, 0, 1, 2, 3, 10, 50}

RandInts(m) ==
    IF m = "attack" THEN -2..3
    ELSE IF m = "heal" THEN 5..15
    ELSE IF m = "special" THEN 0..5
    ELSE {0}

EffectInputs ==
    [op : {"effects"}, user : {1, 2}, move : MoveTypes,
     challenger_attack : AttackPowers, challenged_attack : AttackPowers]

EffectsApply(p) ==
    /\ pc[p] = "calc" /\ call[p].op = "effects"
    /\ \E r \in RandInts(call[p].move), hit \in Hits(call[p].move) :
          LET c == call[p]
              d == [NewDuelRow(1, 2, 1) EXCEPT
                       !.status = "active",
                       !.challenger_attack = c.challenger_attack,
                       !.challenged_attack = c.challenged_attack]
          IN  Finish(p, c, [args |-> c, attack_power |-> GetUserAttack(d, c.user),
                            effects |-> CalculateMoveEffects(d, c.user, c.move, r, hit)])
    /\ UNCHANGED <<users, duels, moves, hist>>
    /\ UNCHANGED middleware

InitResolve ==
    /\ users = EmptyUsers
    /\ duels = <<>>
    /\ moves = <<>>
    /\ hist = NoHist
    /\ \E c \in EffectInputs :
          /\ call = [p \in Procs |-> IF p = "p1" THEN c ELSE NoCall]
          /\ pc = [p \in Procs |-> IF p = "p1" THEN "calc" ELSE "idle"]
    /\ loc = [p \in Procs |-> NoLoc]
    /\ res = [p \in Procs |-> NoRes]
    /\ MiddlewareInit

NextResolve == \E p \in Procs : EffectsApply(p)

SpecResolve == InitResolve /\ [][NextResolve]_vars

\* --------------------------------------- the progress display (SpecProgress)
\* User.get_xp_for_next_level: the requirement of level + 1, 0 at level 99.
GetXpForNextLevel(user) ==
    IF user.level >= MaxLevel THEN 0 ELSE RequiredXp(user.level + 1)

\* User.get_xp_progress: (current, required, percentage).  The requirement
\* of the current level is computed from level - 1.  The float expression
\* int((current / required) * 100) equals the exact quotient for every
\* experience of every level 1..98 (compared in Python over all of them).
GetXpProgress(user) ==
    IF user.level >= MaxLevel
    THEN [current_level_xp |-> 0, required_xp |-> 0, percentage |-> 100]
    ELSE LET current_level_xp_required ==
                 IF user.level = 1 THEN 0 ELSE RequiredXp(user.level - 1)
             next_level_xp_required == GetXpForNextLevel(user)
             current_level_xp == Max2(0, user.experience - current_level_xp_required)
             required_xp == next_level_xp_required - current_level_xp_required
         IN  [current_level_xp |-> current_level_xp, required_xp |-> required_xp,
              percentage |-> IF required_xp > 0
                             THEN (current_level_xp * 100) \div required_xp
                             ELSE 100]

\* A user object whose experience is drawn at the start and whose level is
\* the one calculate_level gives it, as every write of experience stores it.
ProgressInputs == [op : {"progress"}, experience : LevelXps]

ProgressApply(p) ==
    /\ pc[p] = "calc" /\ call[p].op = "progress"
    /\ LET user == [experience |-> call[p].experience,
                    level |-> CalculateLevel(call[p].experience)]
       IN  Finish(p, call[p], [user |-> user, progress |-> GetXpProgress(user)])
    /\ UNCHANGED <<users, duels, moves, hist>>
    /\ UNCHANGED middleware

InitProgress ==
    /\ users = EmptyUsers
    /\ duels = <<>>
    /\ moves = <<>>
    /\ hist = NoHist
    /\ \E c \in ProgressInputs :
          /\ call = [p \in Procs |-> IF p = "p1" THEN c ELSE NoCall]
          /\ pc = [p \in Procs |-> IF p = "p1" THEN "calc" ELSE "idle"]
    /\ loc = [p \in Procs |-> NoLoc]
    /\ res = [p \in Procs |-> NoRes]
    /\ MiddlewareInit

NextProgress == \E p \in Procs : ProgressApply(p)

SpecProgress == InitProgress /\ [][NextProgress]_vars

\* ------------------------------------------- duels over the days (SpecDay)
\* Duel updates of a user one after the other, over several calendar days:
\* hist.day is the date date.today() returns and hist.played[u] the number
\* of duel updates made for u on that date so far.
MaxDay == 2
MaxPlayed == 4

DayHist == [day |-> 1, played |-> [u \in UserIds |-> 0]]

\* date.today() moves on to the next day.
Midnight ==
    /\ \A p \in Procs : Idle(p)
    /\ hist.day < MaxDay
    /\ hist' = [day |-> hist.day + 1, played |-> [u \in UserIds |-> 0]]
    /\ UNCHANGED <<users, duels, moves, pc, call, loc, res>>
    /\ UNCHANGED middleware

\* update_user_after_duel, run from its get_user to its return with no
\* other call in between.
ScoreDuel(p, u, won, dmg, opp) ==
    /\ \A q \in Procs : Idle(q)
    /\ HasUser(users, u)
    /\ hist.played[u] < MaxPlayed
    /\ LET user == FromDict(users[u])
           updates == DuelUpdates(user, won, dmg.dealt, dmg.taken, opp.level,
                                  opp.is_outlaw, hist.day)
       IN  /\ users' = UpdateUserStats(users, u, updates)
           /\ Finish(p, [op |-> "score"],
                     [user |-> u, won |-> won,
                      out |-> IF UpdateRaises(updates) THEN "raised" ELSE "ok",
                      played_before |-> hist.played[u],
                      diminishing_x10 |-> DiminishingX10(user.duels_today),
                      xp_gained |-> updates.experience - user.experience])
    /\ hist' = [hist EXCEPT !.played[u] = @ + 1]
    /\ UNCHANGED <<duels, moves>>
    /\ UNCHANGED middleware

InitDay ==
    /\ users = EmptyUsers
    /\ duels = <<>>
    /\ moves = <<>>
    /\ pc = [p \in Procs |-> "idle"]
    /\ call = [p \in Procs |-> NoCall]
    /\ loc = [p \in Procs |-> NoLoc]
    /\ res = [p \in Procs |-> NoRes]
    /\ hist = DayHist
    /\ MiddlewareInit

NextDay ==
    \/ \E u \in ProgUsers : GetOrCreate(u)
    \/ \E p \in Procs, u \in ProgUsers, won \in BOOLEAN, dmg \in Damages,
          opp \in Opponents : ScoreDuel(p, u, won, dmg, opp)
    \/ Midnight

SpecDay == InitDay /\ [][NextDay]_vars

\* ------------------------------- instant duel beside grants (SpecSnap)
\* One instant duel command at a time, run by p1, while p2 grants
\* experience: the participants' levels differ from one another, and the
\* stored level of an opponent can change after the command has fetched
\* its two user objects.
NextSnap ==
    \/ \E author \in UserIds, target \in UserIds, reachable \in BOOLEAN :
          InstantStart("p1", author, target, reachable)
    \/ InstantLoad("p1")
    \/ InstantRound("p1")
    \/ InstantUpdateLoad("p1")
    \/ InstantUpdateWrite("p1")
    \/ \E u \in ProgUsers, amt \in ExpAmounts : GrantStart("p2", u, amt)
    \/ GrantWrite("p2")

SpecSnap == Init /\ [][NextSnap]_vars

\* ----------------------------------- the cooldown middleware (SpecCooldown)
\* The commands, users and durations (seconds) the callers draw from, and
\* how far the clock runs.
CommandNames == {"duel", "level"}
CooldownUsers == {1}
Durations == {1, 2}
MaxClock == 3

\* What the callers asked for: per command and user, and per user for the
\* global cooldown, when the latest cooldown not cleared since was added
\* and for how long (at = -1: none).
NoAdd == [at |-> -1, duration |-> 0]
CooldownHist ==
    [added |-> [k \in CommandNames \X CooldownUsers |-> NoAdd],
     global |-> [u \in CooldownUsers |-> NoAdd]]

\* d without key k: del d[k], d.pop(k, None).
Without(d, k) == [v \in DOMAIN d \ {k} |-> d[v]]

HasCooldown(command_name, user_id) ==
    /\ command_name \in DOMAIN cooldowns
    /\ user_id \in DOMAIN cooldowns[command_name]

\* CooldownMiddleware.add_cooldown
AddCooldown(command_name, user_id, duration) ==
    /\ cooldowns' =
          LET of_command == IF command_name \in DOMAIN cooldowns
                            THEN cooldowns[command_name] ELSE <<>>
          IN  (command_name :> ((user_id :> clock + duration) @@ of_command))
                 @@ cooldowns
    /\ hist' = [hist EXCEPT !.added[<<command_name, user_id>>] =
                               [at |-> clock, duration |-> duration]]
    /\ UNCHANGED <<users, duels, moves, pc, call, loc, res, global_cooldowns, clock>>

\* CooldownMiddleware.add_global_cooldown: the user is added to the set; the
\* duration is logged and nothing else.
AddGlobalCooldown(user_id, duration) ==
    /\ global_cooldowns' = global_cooldowns \cup {user_id}
    /\ hist' = [hist EXCEPT !.global[user_id] =
                               [at |-> clock, duration |-> duration]]
    /\ UNCHANGED <<users, duels, moves, pc, call, loc, res, cooldowns, clock>>

\* CooldownMiddleware.is_on_cooldown, called by p: True for a user of the
\* global set; True before the command's expiry time; otherwise an expired
\* entry is deleted and False returned.
IsOnCooldown(p, command_name, user_id) ==
    /\ Idle(p)
    /\ LET on == \/ user_id \in global_cooldowns
                 \/ /\ HasCooldown(command_name, user_id)
                    /\ clock < cooldowns[command_name][user_id]
       IN  /\ res' = [res EXCEPT ![p] =
                         [op |-> "is_on_cooldown", command_name |-> command_name,
                          user_id |-> user_id, ret |-> on]]
           /\ cooldowns' =
                 IF ~on /\ HasCooldown(command_name, user_id)
                 THEN [cooldowns EXCEPT ![command_name] = Without(@, user_id)]
                 ELSE cooldowns
    /\ UNCHANGED <<users, duels, moves, pc, call, loc, hist, global_cooldowns, clock>>

\* CooldownMiddleware.clear_cooldown
ClearCooldown(command_name, user_id) ==
    /\ cooldowns' =
          IF command_name \in DOMAIN cooldowns
          THEN [cooldowns EXCEPT ![command_name] = Without(@, user_id)]
          ELSE cooldowns
    /\ global_cooldowns' = global_cooldowns \ {user_id}
    /\ hist' = [hist EXCEPT !.added[<<command_name, user_id>>] = NoAdd,
                            !.global[user_id] = NoAdd]
    /\ UNCHANGED <<users, duels, moves, pc, call, loc, res, clock>>

\* time.time() moves on by a second.
Tick ==
    /\ clock < MaxClock
    /\ clock' = clock + 1
    /\ UNCHANGED <<users, duels, moves, pc, call, loc, res, hist, cooldowns, global_cooldowns>>

InitCooldown ==
    /\ users = EmptyUsers
    /\ duels = <<>>
    /\ moves = <<>>
    /\ pc = [p \in Procs |-> "idle"]
    /\ call = [p \in Procs |-> NoCall]
    /\ loc = [p \in Procs |-> NoLoc]
    /\ res = [p \in Procs |-> NoRes]
    /\ hist = CooldownHist
    /\ MiddlewareInit

NextCooldown ==
    \/ \E c \in CommandNames, u \in CooldownUsers, d \in Durations : AddCooldown(c, u, d)
    \/ \E u \in CooldownUsers, d \in Durations : AddGlobalCooldown(u, d)
    \/ \E c \in CommandNames, u \in CooldownUsers : IsOnCooldown("p1", c, u)
    \/ \E c \in CommandNames, u \in CooldownUsers : ClearCooldown(c, u)
    \/ Tick

SpecCooldown == InitCooldown /\ [][NextCooldown]_vars

\* ======================================================= claims C1 .. C3
LiveDuelsOf(u, g) ==
    {i \in DOMAIN duels :
        /\ duels[i].guild_id = g
        /\ duels[i].status \in {"pending", "active"}
        /\ (duels[i].challenger_id = u \/ duels[i].challenged_id = u)}

\* C1: in every reachable state no user is a participant of two duels of
\* the same guild whose status is pending or active.
C1_OneLiveDuelPerUser ==
    \A u \in UserIds, g \in Guilds : Cardinality(LiveDuelsOf(u, g)) <= 1

StatusEdges ==
    {<<"pending", "active">>, <<"pending", "cancelled">>,
     <<"pending", "timeout">>, <<"active", "completed">>}

TerminalStatus == {"completed", "cancelled", "timeout"}

\* C2: every step changes a duel's status along pending->active,
\* pending->cancelled, pending->timeout or active->completed only, and
\* leaves a duel whose status is completed, cancelled or timeout as it is
\* (status, winner, HP and timestamps).
C2_StatusEdgesOnly ==
    [][\A i \in DOMAIN duels :
          i \in DOMAIN duels' =>
             /\ duels'[i].status # duels[i].status =>
                   <<duels[i].status, duels'[i].status>> \in StatusEdges
             /\ duels[i].status \in TerminalStatus => duels'[i] = duels[i]]_vars

\* C3: a submitMove by a participant of a duel that is active when the call
\* looks the duel up is not rejected with "no active duel" (it is applied).
C3_ActiveMoveAccepted ==
    \A p \in Procs :
        (res[p].op = "make_move" /\ res[p].had_active) => res[p].out = "ok"

\* ======================================================= claims C4, C7
AllIdle == \A p \in Procs : Idle(p)

WinnerByHp(d) ==
    IF d.challenger_hp > 0 THEN d.challenger_id
    ELSE IF d.challenged_hp > 0 THEN d.challenged_id
    ELSE 0

AfterMove(d, a) ==
    MakeMoveBody(<<d>>, <<>>, 1, d, a.user, a.move, a.r, a.hit, 1).duels[1]

AfterBoth(d, a, b) ==
    IF IsActive(AfterMove(d, a)) THEN AfterMove(AfterMove(d, a), b)
    ELSE AfterMove(d, a)

HpOf(d) == <<d.challenger_hp, d.challenged_hp>>

C6_BothUpdatesCounted ==
    \A p, q \in Procs :
        (/\ p # q /\ AllIdle
         /\ res[p].op = "update" /\ res[q].op = "update"
         /\ "before" \in DOMAIN res[p] /\ "before" \in DOMAIN res[q]
         /\ res[p].user = res[q].user
         /\ res[q].overlap
         /\ HasUser(users, res[q].user))
        => LET now == users[res[q].user]
               before == res[q].before
           IN  /\ now.duels_played = before.duels_played + 2
               /\ now.experience = before.experience + res[p].xp_gained
                                   + res[q].xp_gained
               /\ now.wins + now.losses = before.wins + before.losses + 2

\* requiredXp of the specification: 0 for level 1, 10 L^3 + 100 L above.
ReqXp(L) == IF L = 1 THEN 0 ELSE 10 * L * L * L + 100 * L
LevelOf(experience) == Max({L \in 1..MaxLevel : experience >= ReqXp(L)})

C9_OutlawIffStreak ==
    AllIdle => \A u \in DOMAIN users :
        /\ FromDict(users[u]).is_outlaw <=> users[u].win_streak >= OutlawStreak
        /\ FromDict(users[u]).is_outlaw <=> hist.run[u] >= OutlawStreak

\* C10: no step lowers the stored experience of a record that stays.
C10_ExperienceMonotone ==
    [][\A u \in DOMAIN users : u \in DOMAIN users' =>
          users'[u].experience >= users[u].experience]_vars

\* ================================================================ claim C5
\* C5: an instant duel that reached a terminal HP and whose command has
\* returned has updated the record of each of its two participants: the
\* author's and the target's update were both stored.
C5_BothParticipantsUpdated ==
    \A p \in Procs :
        (res[p].op = "instant" /\ res[p].out # "invalid")
        => res[p].updated = {res[p].author, res[p].target}

\* ==================================================== claims C11, C13, C14
\* The award formula of the specification, with the multipliers as
\* fractions: level 2, 1/2 or 1; outlaw 2 or 1; diminishing 1/10, 1/2, 4/5
\* or 1.
AwardOf(a) ==
    LET base == IF a.won THEN 10 ELSE 5
        streakBonus == IF a.won THEN Min2(a.win_streak, 5) ELSE 0
        firstDuelBonus == IF a.is_first_duel_today THEN 5 ELSE 0
        sum == base + Min2(a.damage_dealt \div 20, 10) + streakBonus
               + firstDuelBonus + (a.damage_dealt \div 10)
        level == IF a.opponent_level > a.level THEN <<2, 1>>
                 ELSE IF a.opponent_level < a.level THEN <<1, 2>> ELSE <<1, 1>>
        outlaw == IF a.opponent_is_outlaw THEN 2 ELSE 1
        dim == IF a.duels_today >= 10 THEN <<1, 10>>
               ELSE IF a.duels_today >= 5 THEN <<1, 2>>
               ELSE IF a.duels_today >= 3 THEN <<4, 5>> ELSE <<1, 1>>
    IN  Max2(1, (sum * level[1] * outlaw * dim[1]) \div (level[2] * dim[2]))

ExampleDuel(a) ==
    /\ a.level = 10 /\ a.damage_dealt = 50 /\ a.won /\ a.win_streak = 0
    /\ a.is_first_duel_today /\ ~a.opponent_is_outlaw /\ a.duels_today = 0

C14_AwardAtLeastOne ==
    \A p \in Procs : "xp_gained" \in DOMAIN res[p] => res[p].xp_gained >= 1

\* C14 witness: a loss with no damage against a lower-level opponent with
\* 10 duels played today was scored, and the award is 1.
C14_Witness ==
    \E p \in Procs :
        /\ "xp_gained" \in DOMAIN res[p]
        /\ LET a == res[p].args
           IN  /\ ~a.won /\ a.damage_dealt = 0 /\ a.opponent_level < a.level
               /\ a.duels_today >= 10 /\ ~a.is_first_duel_today
        /\ res[p].xp_gained = 1

FactorOf(n) == IF n >= 10 THEN 1 ELSE IF n >= 5 THEN 5 ELSE IF n >= 3 THEN 8 ELSE 10

\* C12: the diminishing factor a duel update applies is the one for the
\* number of duels the user has already completed on the day of the duel.
C12_DiminishingByDuelsToday ==
    \A p \in Procs : res[p].op = "score" =>
        res[p].diminishing_x10 = FactorOf(res[p].played_before)

\* ================================================================ claim C15
\* What the specification has a duel update of u do to the stored record.
DuelFrame(u, won, dmg) ==
    LET a == users[u]
        b == users'[u]
    IN  /\ b.duels_played = a.duels_played + 1
        /\ b.total_damage_dealt = a.total_damage_dealt + dmg.dealt
        /\ b.total_damage_taken = a.total_damage_taken + dmg.taken
        /\ IF won
           THEN /\ b.wins = a.wins + 1 /\ b.losses = a.losses
                /\ b.win_streak = a.win_streak + 1
                /\ b.best_win_streak = Max2(a.best_win_streak, a.win_streak + 1)
           ELSE /\ b.losses = a.losses + 1 /\ b.wins = a.wins
                /\ b.win_streak = 0
                /\ b.best_win_streak = a.best_win_streak

\* C15: every duel update changes the stored record as specified: a win
\* adds 1 to wins and the streak and raises the best streak to it, a loss
\* adds 1 to losses and clears the streak; both add the damage totals and 1
\* to duels_played.
C15_DuelUpdateFrame ==
    [][\A p \in Procs, u \in ProgUsers, won \in BOOLEAN, dmg \in Damages,
          opp \in Opponents :
          ScoreDuel(p, u, won, dmg, opp) => DuelFrame(u, won, dmg)]_vars

\* ================================================================ claim C16
\* C16: an instant duel that ended with both HP at 0 names no winner, plans
\* one update for each participant, both with won = false, and has stored
\* both when the command returns.
C16_DrawUpdatesBothOnce ==
    \A p \in Procs :
        (/\ res[p].op = "instant" /\ res[p].out # "invalid"
         /\ res[p].challenger_hp <= 0 /\ res[p].target_hp <= 0)
        => /\ \A i \in DOMAIN res[p].plan : ~res[p].plan[i].won
           /\ \A u \in {res[p].author, res[p].target} :
                 Cardinality({i \in DOMAIN res[p].plan : res[p].plan[i].user = u}) = 1
           /\ res[p].updated = {res[p].author, res[p].target}

\* ================================================================ claim C17
\* the user object the command fetched for the opponent of u
OpponentSnapshot(r, u) == IF u = r.author THEN r.target_user ELSE r.challenger_user

\* C17: every update an instant duel plans for a participant is given the
\* level and the outlaw flag of the opponent's user object as fetched before
\* the fight, whichever of the two updates is made first and whatever has
\* been stored since.
C17_OpponentAsBeforeDuel ==
    \A p \in Procs : (res[p].op = "instant" /\ res[p].out # "invalid") =>
        \A i \in DOMAIN res[p].plan :
            LET c == res[p].plan[i]
            IN  /\ c.user \in {res[p].author, res[p].target}
                /\ c.opponent_level = OpponentSnapshot(res[p], c.user).level
                /\ c.opponent_is_outlaw = OpponentSnapshot(res[p], c.user).is_outlaw

\* C17 witness: a duel has ended between participants fetched at different
\* levels, and the stored level of one of them has changed since.
C17_Witness ==
    \E p \in Procs :
        /\ res[p].op = "instant" /\ res[p].out # "invalid"
        /\ res[p].challenger_user.level # res[p].target_user.level
        /\ HasUser(users, res[p].author)
        /\ users[res[p].author].level # res[p].challenger_user.level

\* ======================================================= claims C18 .. C20
\* C18: a challenge issued while one of its parties was in a pending or
\* active duel of the community inserts no duel, and a challenge that fails
\* with DuelInProgress changes no duel.
C18_BusyChallengeRejected ==
    [][\A p \in Procs :
          /\ ChallengeInsert(p) => ~loc[p].busy
          /\ (pc[p] = "cd_chk2" /\ pc'[p] = "idle")
                => res'[p].out = "DuelInProgress" /\ duels' = duels]_vars

PendingOf(g) == {i \in DOMAIN duels : duels[i].guild_id = g /\ duels[i].status = "pending"}
ChallengerOnly(u, g) ==
    /\ \E i \in PendingOf(g) : duels[i].challenger_id = u
    /\ \A i \in PendingOf(g) : duels[i].challenged_id # u
ChallengedOnly(u, g) ==
    /\ \E i \in PendingOf(g) : duels[i].challenged_id = u
    /\ \A i \in PendingOf(g) : duels[i].challenger_id # u
\* the step is one in which p calls accept, decline or cancel
Responds(p) ==
    /\ Idle(p)
    /\ \/ pc'[p] = "upd"
       \/ res'[p] # res[p] /\ res'[p].op \in {"accept", "decline", "cancel"}
FailsWith(p, out) == "out" \in DOMAIN res'[p] /\ res'[p].out = out /\ pc'[p] = "idle"

C20_AcceptActivatesPending ==
    [][\A p \in Procs :
          /\ AcceptUpdate(p) =>
                LET id == loc[p].duel_id
                IN  /\ duels[id].status = "pending"
                    /\ duels'[id].started_at # 0
                    /\ duels' = [duels EXCEPT ![id] =
                                   [@ EXCEPT !.status = "active",
                                             !.started_at = duels'[id].started_at]]
          /\ Responds(p) =>
                \A u \in UserIds, g \in Guilds :
                   ((\A i \in PendingOf(g) : duels[i].challenged_id # u)
                    /\ AcceptStart(p, u, g))
                   => pc'[p] = "idle" /\ res'[p].out # "ok" /\ duels' = duels]_vars

\* ======================================================= claims C21 .. C30
\* C21: the update of a decline or a cancel is made on a duel that is
\* pending, turns exactly its status to cancelled and sets its end time, with
\* every other field and duel as they were; a decline or cancel that finds
\* no pending duel of the caller changes no duel; and a challenge is refused
\* only while one of its parties is in a pending duel, so the parties of a
\* cancelled duel are free again.
C21_CancelEndsPending ==
    [][\A p \in Procs :
          /\ CancelUpdate(p) =>
                LET id == loc[p].duel_id
                IN  /\ duels[id].status = "pending"
                    /\ duels'[id].ended_at # 0
                    /\ duels' = [duels EXCEPT ![id] =
                                   [@ EXCEPT !.status = "cancelled",
                                             !.ended_at = duels'[id].ended_at]]
          /\ (Idle(p) /\ res'[p] # res[p] /\ res'[p].op \in {"decline", "cancel"})
                => duels' = duels
          /\ (pc[p] = "cd_chk2" /\ pc'[p] = "idle")
                => \/ loc[p].challenger_pending
                   \/ GetPendingDuel(duels, call[p].target, call[p].guild) # 0]_vars

\* HP values of an instant duel held by a handler or shown in its result
InstantHps(r) ==
    IF "challenger_hp" \in DOMAIN r THEN {r.challenger_hp, r.target_hp} ELSE {}

\* C22: in every state, both HP columns of every duel row, and of every duel
\* object a handler holds, lie in 0..100, and both HP values of every instant
\* duel lie in 0..250.
C22_HpInRange ==
    /\ \A i \in DOMAIN duels :
          /\ duels[i].challenger_hp \in 0..DefaultHp
          /\ duels[i].challenged_hp \in 0..DefaultHp
    /\ \A p \in Procs :
          /\ "duel" \in DOMAIN loc[p] =>
                /\ loc[p].duel.challenger_hp \in 0..DefaultHp
                /\ loc[p].duel.challenged_hp \in 0..DefaultHp
          /\ InstantHps(loc[p]) \cup InstantHps(res[p]) \subseteq 0..InstantHp

\* C22 witness: a heal was applied by the challenger who started at full HP,
\* the challenged was brought to 0, and an instant duel has since ended with
\* a side at 0.
C22_Witness ==
    /\ hist.start.challenger_hp = DefaultHp
    /\ \E k \in DOMAIN moves :
          /\ moves[k].user_id = 1 /\ moves[k].move_type = "heal" /\ moves[k].healing > 0
    /\ duels[1].challenger_hp = DefaultHp
    /\ duels[1].challenged_hp = 0
    /\ res["p1"].op = "instant" /\ 0 \in InstantHps(res["p1"])

\* C23: for every attack power and draw the resolver returns, for attack, a
\* damage from max(1, power - 2) to max(1, power + 3) and no healing; for
\* special, a damage from 2 * power to 2 * power + 5 or 0, and no healing;
\* for heal, no damage and a healing from 5 to 15; for defend, neither.
C23_ResolverRanges ==
    \A p \in Procs : "effects" \in DOMAIN res[p] =>
        LET m == res[p].args.move
            attackPower == IF res[p].args.user = 1 THEN res[p].args.challenger_attack
                           ELSE res[p].args.challenged_attack
            damage == res[p].effects.damage
            healing == res[p].effects.healing
        IN  /\ m = "attack" =>
                  /\ damage \in Max2(1, attackPower - 2)..Max2(1, attackPower + 3)
                  /\ healing = 0
            /\ m = "special" =>
                  /\ damage \in (2 * attackPower)..(2 * attackPower + 5) \/ damage = 0
                  /\ healing = 0
            /\ m = "heal" => damage = 0 /\ healing \in 5..15
            /\ m = "defend" => damage = 0 /\ healing = 0

\* C23 witness: an attack with power 1 and the lowest draw was resolved to
\* damage 1.
C23_Witness ==
    \E p \in Procs :
        /\ "effects" \in DOMAIN res[p]
        /\ res[p].args.move = "attack" /\ res[p].attack_power = 1
        /\ res[p].effects = [damage |-> 1, healing |-> 0]

\* the last move logged is a defend of the user the mover u of duel d attacks
DefendedAgainst(d, u) ==
    /\ moves # <<>>
    /\ moves[Len(moves)].move_type = "defend"
    /\ moves[Len(moves)].user_id # u
    /\ moves[Len(moves)].user_id \in {d.challenger_id, d.challenged_id}

\* damage of an attack of power attackPower with draw r on a user who is not
\* defending
FullDamage(attackPower, r) == Max2(1, attackPower + r)

C25_ExpireOffered ==
    \A i \in DOMAIN duels :
        (duels[i].status = "pending" /\ \E p \in Procs : Idle(p))
        => ENABLED (Next /\ i \in DOMAIN duels' /\ duels'[i].status = "timeout")

\* HP left of hp after a hit of a draw from 0 to 100 plus the attacker's level
HitBy(hp, hp_after, attacker_level) ==
    \E draw \in 0..100 : hp_after = Max2(0, hp - (draw + attacker_level))

\* C26: an instant duel is set up with 250 HP a side; a round is played only
\* while both HP are above 0; in the round each side's HP goes down (not
\* below 0) by a draw from 0 to 100 plus the other side's level, both from
\* the HP before the round; and the rounds stop once an HP is 0.
C26_InstantRounds ==
    [][\A p \in Procs :
          /\ (pc[p] = "in_load" /\ pc'[p] = "in_round")
                => loc'[p].challenger_hp = InstantHp /\ loc'[p].target_hp = InstantHp
          /\ (pc[p] = "in_round" /\ loc'[p] # loc[p])
                => /\ loc[p].challenger_hp > 0 /\ loc[p].target_hp > 0
                   /\ HitBy(loc[p].challenger_hp, loc'[p].challenger_hp,
                            loc[p].target_user.level)
                   /\ HitBy(loc[p].target_hp, loc'[p].target_hp,
                            loc[p].challenger_user.level)
                   /\ pc'[p] = "in_round"
                         <=> (loc'[p].challenger_hp > 0 /\ loc'[p].target_hp > 0)]_vars

\* C26 witness: an instant duel between users of different levels is past
\* its first round with both sides hit and still standing.
C26_Witness ==
    \E p \in Procs :
        /\ pc[p] = "in_round" /\ loc[p].round_num >= 2
        /\ loc[p].challenger_user.level # loc[p].target_user.level
        /\ loc[p].challenger_hp \in 1..(InstantHp - 1)
        /\ loc[p].target_hp \in 1..(InstantHp - 1)

\* C27: after a duel update of u the record loaded next carries duels_today
\* 1 when the record loaded before had no last-duel date or another date
\* than today's, and its duels_today + 1 otherwise; and that is the number
\* of duels u has completed on the day of this duel.
C27_DuelsTodayCounts ==
    [][\A u \in ProgUsers :
          hist'.played[u] = hist.played[u] + 1
          => LET before == FromDict(users[u])
                 after == FromDict(users'[u])
             IN  /\ after.duels_today =
                       IF IsFirstDuelToday(before, hist.day) THEN 1
                       ELSE before.duels_today + 1
                 /\ after.duels_today = hist'.played[u]]_vars

\* C28: a user record that exists still exists after every step; get_or_create
\* of an existing user leaves the table as it is; and a connect of the
\* persistence service leaves every stored record as it is.
C28_RecordsKept ==
    [][\A u \in DOMAIN users :
          /\ u \in DOMAIN users'
          /\ GetOrCreateUser(users, u) = users
          /\ Connect => users'[u] = users[u]]_vars

\* C29: after a duel update of u, the record loaded next carries every field
\* of the update with the value the update gave it.
C29_UpdateRoundTrips ==
    [][\A p \in Procs, u \in ProgUsers, won \in BOOLEAN, dmg \in Damages,
          opp \in Opponents :
          ScoreDuel(p, u, won, dmg, opp)
          => LET updates == DuelUpdates(FromDict(users[u]), won, dmg.dealt, dmg.taken,
                                        opp.level, opp.is_outlaw, hist.day)
                 loaded == FromDict(users'[u])
             IN  \A k \in DOMAIN updates : loaded[k] = updates[k]]_vars

\* C30: every award is the formula's value with the outlaw multiplier 2 when
\* the participant won and the opponent was flagged outlaw, and 1 otherwise.
C30_OutlawBountyOnWin ==
    \A p \in Procs : "xp_gained" \in DOMAIN res[p] =>
        LET a == res[p].args
        IN  res[p].xp_gained
               = AwardOf([a EXCEPT !.opponent_is_outlaw = a.won /\ a.opponent_is_outlaw])

\* ======================================================= claims C31 .. C40
\* C31: for a user below level 99 whose level is the one of its experience,
\* the progress is (experience - requiredXp(level), requiredXp(level + 1) -
\* requiredXp(level), the whole percentage of the first in the second, from
\* 0 to 100); at level 99 it is (0, 0, 100).
C31_XpProgress ==
    \A p \in Procs : "progress" \in DOMAIN res[p] =>
        LET user == res[p].user
            L == user.level
            into == user.experience - ReqXp(L)
            needed == ReqXp(L + 1) - ReqXp(L)
            got == res[p].progress
        IN  /\ L = LevelOf(user.experience)
            /\ IF L >= MaxLevel
               THEN got = [current_level_xp |-> 0, required_xp |-> 0, percentage |-> 100]
               ELSE /\ got.current_level_xp = into
                    /\ got.required_xp = needed
                    /\ got.percentage = (100 * into) \div needed
                    /\ got.percentage \in 0..100
                    /\ user.experience = ReqXp(L) => got.percentage = 0

\* the records of the move log that carry duel id
MovesOfDuel(mv, id) == SelectSeq(mv, LAMBDA r : r.duel_id = id)

C33_MissingRecordNotFound ==
    [][\A p \in Procs, u \in ProgUsers :
          (Idle(p) /\ ~HasUser(users, u))
          => /\ \A amt \in ExpAmounts :
                   GrantStart(p, u, amt) => FailsWith(p, "none") /\ users' = users
             /\ \A won \in BOOLEAN, dmg \in Damages, opp \in Opponents :
                   UpdateStart(p, u, won, dmg, opp)
                   => FailsWith(p, "none") /\ users' = users]_vars

\* C33 witness: with no record in the table, a grant and a duel update have
\* both returned not-found.
C33_Witness ==
    /\ users = EmptyUsers
    /\ \E p, q \in Procs :
          /\ res[p] = [op |-> "grant", out |-> "none"]
          /\ res[q] = [op |-> "update", out |-> "none"]

\* C34: calculate_level returns 99 for every experience from 9,702,100 on
\* and at most 98 for every experience below it.
C34_Level99Threshold ==
    \A p \in Procs : "other_level" \in DOMAIN res[p] =>
        /\ res[p].args.experience >= ShownLevel99Xp => res[p].level = MaxLevel
        /\ res[p].args.experience < ShownLevel99Xp => res[p].level <= MaxLevel - 1

C36_PlayedIsSumOfOutcomes ==
    /\ \A u \in DOMAIN users :
          users[u].duels_played = users[u].wins + users[u].losses + users[u].draws
    /\ \A p \in Procs : "after" \in DOMAIN res[p] =>
          res[p].after.duels_played
             = res[p].after.wins + res[p].after.losses + res[p].after.draws

\* C36 witness: two duel updates of user 1 that overlapped, a win and a
\* loss, have both returned.
C36_Witness ==
    /\ HasUser(users, 1)
    /\ \E p, q \in Procs :
          /\ "after" \in DOMAIN res[p] /\ res[p].won /\ res[p].after.wins = 1
          /\ "after" \in DOMAIN res[q] /\ ~res[q].won /\ res[q].overlap
          /\ res[q].after.losses = 1

\* C37: in every stored user record, and in the record every duel update
\* computes, best_win_streak >= win_streak; no step lowers the stored
\* best_win_streak of a record that stays, and no duel update computes a
\* best_win_streak below the one it loaded.
C37_BestStreakMonotone ==
    [][/\ \A u \in DOMAIN users :
             /\ users[u].best_win_streak >= users[u].win_streak
             /\ u \in DOMAIN users' =>
                   users'[u].best_win_streak >= users[u].best_win_streak
       /\ \A p \in Procs : (pc[p] = "ud_wr" /\ pc'[p] = "idle") =>
             /\ res'[p].after.best_win_streak >= res'[p].after.win_streak
             /\ res'[p].after.best_win_streak >= loc[p].user.best_win_streak]_vars

\* C37 witness: a duel update of user 1 that won has returned beside
\* another update of the same user.
C37_Witness ==
    /\ HasUser(users, 1)
    /\ \E p, q \in Procs :
          /\ p # q
          /\ "after" \in DOMAIN res[p] /\ res[p].won
          /\ res[p].after.win_streak = 1 /\ res[p].after.best_win_streak = 1
          /\ "after" \in DOMAIN res[q] /\ res[q].overlap

\* The verdicts an instant duel's update calls carry: who is updated, and
\* whether as winner.
Verdicts(r) == {<<r.plan[i].user, r.plan[i].won>> : i \in DOMAIN r.plan}

C39_InstantTerminates ==
    /\ [](\A p \in Procs : pc[p] = "in_round" =>
             /\ loc[p].challenger_user.level >= 1 /\ loc[p].target_user.level >= 1
             /\ loc[p].round_num \in 1..InstantHp
             /\ loc[p].challenger_hp \in 1..(InstantHp + 1 - loc[p].round_num)
             /\ loc[p].target_hp \in 1..(InstantHp + 1 - loc[p].round_num))
    /\ [][\A p \in Procs : (pc[p] = "in_round" /\ loc'[p] # loc[p]) =>
             /\ loc'[p].challenger_hp < loc[p].challenger_hp
             /\ loc'[p].target_hp < loc[p].target_hp
             /\ loc'[p].challenger_hp
                   <= Max2(0, loc[p].challenger_hp - loc[p].target_user.level)
             /\ loc'[p].target_hp
                   <= Max2(0, loc[p].target_hp - loc[p].challenger_user.level)
             /\ pc'[p] = "in_round" => loc'[p].round_num = loc[p].round_num + 1]_vars
    /\ \A p \in Procs : (pc[p] = "in_round") ~> (pc[p] # "in_round")

\* C39 witness: a duel of two level 1 users is about to play its 250th
\* round, each side at 1 HP.
C39_Witness ==
    \E p \in Procs :
        /\ pc[p] = "in_round" /\ loc[p].round_num = InstantHp
        /\ loc[p].challenger_hp = 1 /\ loc[p].target_hp = 1

\* C40: is_on_cooldown(command, user), asked when the only cooldown added
\* for them and not cleared since is one add_cooldown(command, user, d), or
\* one add_global_cooldown(user, d), answers true while less than d has
\* elapsed since it was added and false once d has elapsed.
C40_CooldownExpires ==
    [][\A p \in Procs, c \in CommandNames, u \in CooldownUsers :
          IsOnCooldown(p, c, u)
          => LET a == hist.added[<<c, u>>]
                 g == hist.global[u]
             IN  /\ (a.at >= 0 /\ g.at < 0)
                       => (res'[p].ret <=> clock - a.at < a.duration)
                 /\ (g.at >= 0 /\ a.at < 0)
                       => (res'[p].ret <=> clock - g.at < g.duration)]_vars
====
